---- MODULE Spec2Model ----
(***************************************************************************)
(* Model of the interaction subsystem of fae:                              *)
(*   - Pointer          (src/plugins/shapes/test/Rectangle.test.js:149-591)*)
(*   - InteractionSystem (src/plugins/interaction/InteractionSystem.js)    *)
(*                                                                         *)
(* JavaScript values are represented as follows.                           *)
(*   numbers      IEEE 754 doubles: records [kind, sign, digits, exp], a   *)
(*                finite number being sign * digits * 2^exp.  Zero is      *)
(*                signed; Infinity, -Infinity and NaN have their own kind. *)
(*                Every operation rounds to the nearest double, a tie to   *)
(*                the even one, as the program's arithmetic does.          *)
(*   undefined    a record of kind "undefined" where a number may stand,   *)
(*                the string "undefined" where a string may stand          *)
(*   event types  tuples of characters, so that type[0] can be taken       *)
(*   other strings (pointer types, channel names)  strings                 *)
(*   references   strings: "null", "true" (the boolean true, which a       *)
(*                candidate's hitTest may return), or an object's name     *)
(*   exceptions   the name of the error ("none" when the call returned)    *)
(*                                                                         *)
(* Pointer._set reads the global `event`.  What that is depends on the     *)
(* host, on the target the running listener is registered on and on who    *)
(* calls handleEvent; all are part of the model (host, Deliver, Forward).  *)
(***************************************************************************)
EXTENDS Integers, Sequences, FiniteSets, TLC

\* ------------------------------------------------------------------ bounds
\* Number of calls (lifecycle calls, layout changes, dispatched events).
MaxSteps == 4

\* --------------------------------------------------------- natural numbers
\* Naturals of any size, as sequences of digits in base 2^15, the least
\* significant digit first and the most significant digit non-zero; <<>> is 0.
\* (A product of two digits plus a carry stays below 2^30.)
Max(a, b) == IF a >= b THEN a ELSE b
Min(a, b) == IF a <= b THEN a ELSE b

RECURSIVE BigOf(_)
BigOf(n) == IF n = 0 THEN <<>> ELSE <<n % (2^15)>> \o BigOf(n \div (2^15))

RECURSIVE BigTrim(_)
BigTrim(a) ==
    IF a = <<>> THEN <<>>
    ELSE IF a[Len(a)] = 0 THEN BigTrim(SubSeq(a, 1, Len(a) - 1))
    ELSE a

Digit(a, i) == IF i <= Len(a) THEN a[i] ELSE 0

RECURSIVE BigAddFrom(_, _, _, _)
BigAddFrom(a, b, i, carry) ==
    IF i > Len(a) /\ i > Len(b) THEN (IF carry = 0 THEN <<>> ELSE <<carry>>)
    ELSE <<(Digit(a, i) + Digit(b, i) + carry) % (2^15)>>
         \o BigAddFrom(a, b, i + 1, (Digit(a, i) + Digit(b, i) + carry) \div (2^15))

BigAdd(a, b) == BigAddFrom(a, b, 1, 0)

RECURSIVE BigSubFrom(_, _, _, _)
BigSubFrom(a, b, i, borrow) ==
    IF i > Len(a) THEN <<>>
    ELSE IF Digit(a, i) - Digit(b, i) - borrow < 0
         THEN <<Digit(a, i) - Digit(b, i) - borrow + 2^15>> \o BigSubFrom(a, b, i + 1, 1)
         ELSE <<Digit(a, i) - Digit(b, i) - borrow>> \o BigSubFrom(a, b, i + 1, 0)

\* a - b, for a >= b
BigSub(a, b) == BigTrim(BigSubFrom(a, b, 1, 0))

RECURSIVE BigCmpAt(_, _, _)
BigCmpAt(a, b, i) ==
    IF i = 0 THEN 0
    ELSE IF a[i] > b[i] THEN 1
    ELSE IF a[i] < b[i] THEN -1
    ELSE BigCmpAt(a, b, i - 1)

\* 1, 0 or -1 as a > b, a = b or a < b
BigCmp(a, b) ==
    IF Len(a) > Len(b) THEN 1
    ELSE IF Len(a) < Len(b) THEN -1
    ELSE BigCmpAt(a, b, Len(a))

RECURSIVE BigMulDigitFrom(_, _, _, _)
BigMulDigitFrom(a, k, i, carry) ==
    IF i > Len(a) THEN (IF carry = 0 THEN <<>> ELSE <<carry>>)
    ELSE <<(a[i] * k + carry) % (2^15)>>
         \o BigMulDigitFrom(a, k, i + 1, (a[i] * k + carry) \div (2^15))

\* a * k for a digit k
BigMulDigit(a, k) == BigTrim(BigMulDigitFrom(a, k, 1, 0))

BigShiftDigit(a) == IF a = <<>> THEN <<>> ELSE <<0>> \o a

RECURSIVE BigMulFrom(_, _, _)
BigMulFrom(a, b, j) ==
    IF j > Len(b) THEN <<>>
    ELSE BigAdd(BigMulDigit(a, b[j]), BigShiftDigit(BigMulFrom(a, b, j + 1)))

BigMul(a, b) == IF Len(a) < Len(b) THEN BigMulFrom(b, a, 1) ELSE BigMulFrom(a, b, 1)

\* Short division by a digit k > 0, from digit i of a downwards with r
\* carried in: the digits of the quotient, and the remainder
RECURSIVE BigQuotientDigitFrom(_, _, _, _)
BigQuotientDigitFrom(a, k, i, r) ==
    IF i = 0 THEN <<>>
    ELSE BigQuotientDigitFrom(a, k, i - 1, (r * (2^15) + a[i]) % k)
         \o <<(r * (2^15) + a[i]) \div k>>

RECURSIVE BigRemainderDigitFrom(_, _, _, _)
BigRemainderDigitFrom(a, k, i, r) ==
    IF i = 0 THEN r ELSE BigRemainderDigitFrom(a, k, i - 1, (r * (2^15) + a[i]) % k)

\* quotient and remainder of a by a digit k > 0
BigDivDigit(a, k) ==
    [q |-> BigTrim(BigQuotientDigitFrom(a, k, Len(a), 0)),
     r |-> BigRemainderDigitFrom(a, k, Len(a), 0)]

Zeros(n) == IF n = 0 THEN <<>> ELSE [i \in 1..n |-> 0]

\* a * 2^n and floor(a / 2^n)
BigShl(a, n) ==
    IF a = <<>> THEN <<>> ELSE Zeros(n \div 15) \o BigMulDigit(a, 2^(n % 15))

BigShr(a, n) ==
    IF n \div 15 >= Len(a) THEN <<>>
    ELSE BigDivDigit(SubSeq(a, n \div 15 + 1, Len(a)), 2^(n % 15)).q

\* number of binary digits of one digit
BitLen(n) == IF n = 0 THEN 0 ELSE CHOOSE k \in 1..15 : 2^(k - 1) <= n /\ n < 2^k

\* number of binary digits of a (0 for 0)
BigBitLen(a) == IF a = <<>> THEN 0 ELSE 15 * (Len(a) - 1) + BitLen(a[Len(a)])

BigOdd(a) == a # <<>> /\ a[1] % 2 = 1

\* number of trailing binary zeros of n > 0
TrailingZeros(n) == CHOOSE k \in 0..30 : n % 2^k = 0 /\ (n \div 2^k) % 2 = 1

RECURSIVE BigTrailingZerosFrom(_, _)
BigTrailingZerosFrom(a, i) ==
    IF a[i] = 0 THEN 15 + BigTrailingZerosFrom(a, i + 1) ELSE TrailingZeros(a[i])

\* number of trailing binary zeros of a > 0
BigTrailingZeros(a) == BigTrailingZerosFrom(a, 1)

RECURSIVE QuotientDigit(_, _, _)
\* the largest d <= guess with b * d <= a
QuotientDigit(a, b, guess) ==
    IF BigCmp(BigMulDigit(b, guess), a) <= 0 THEN guess
    ELSE QuotientDigit(a, b, guess - 1)

\* Long division of a by b, whose leading digit is at least 2^14, from digit
\* i of a downwards with r carried in: the digit of the quotient is guessed
\* from the two leading digits of the running remainder cur (the guess is at
\* most 2 too large)
RECURSIVE BigDivFrom(_, _, _, _)
BigDivPut(rest, d) == [q |-> rest.q \o <<d>>, r |-> rest.r]

BigDivTake(a, b, i, cur, d) ==
    BigDivPut(BigDivFrom(a, b, i - 1, BigSub(cur, BigMulDigit(b, d))), d)

BigDivGuess(cur, b) ==
    Min(2^15 - 1, (Digit(cur, Len(b) + 1) * (2^15) + Digit(cur, Len(b))) \div b[Len(b)])

BigDivFrom(a, b, i, r) ==
    IF i = 0 THEN [q |-> <<>>, r |-> r]
    ELSE BigDivTake(a, b, i, BigAdd(BigShiftDigit(r), BigOf(a[i])),
                    QuotientDigit(BigAdd(BigShiftDigit(r), BigOf(a[i])), b,
                                  BigDivGuess(BigAdd(BigShiftDigit(r), BigOf(a[i])), b)))

BigDivShort(d) == [q |-> d.q, r |-> BigOf(d.r)]
BigDivUnscaled(d, s) == [q |-> BigTrim(d.q), r |-> BigShr(d.r, s)]
BigDivLong(a, b, s) == BigDivUnscaled(BigDivFrom(a, b, Len(a), <<>>), s)

\* quotient and remainder of a by b > 0
BigDivMod(a, b) ==
    IF Len(b) = 1 THEN BigDivShort(BigDivDigit(a, b[1]))
    ELSE BigDivLong(BigShl(a, 15 - BitLen(b[Len(b)])), BigShl(b, 15 - BitLen(b[Len(b)])),
                    15 - BitLen(b[Len(b)]))

\* ------------------------------------------------------- JavaScript values
\* A Number is an IEEE 754 double.  A finite one is sign * digits * 2^exp
\* with digits odd (or 0, with exp 0): zero keeps its sign.
Finite(s, m, e) == [kind |-> "number", sign |-> s, digits |-> m, exp |-> e]
Zero(s) == Finite(s, <<>>, 0)
Infinity(s) == [kind |-> "infinity", sign |-> s, digits |-> <<>>, exp |-> 0]
NaN == [kind |-> "nan", sign |-> 1, digits |-> <<>>, exp |-> 0]
Undefined == [kind |-> "undefined", sign |-> 1, digits |-> <<>>, exp |-> 0]
Null == "null"
True == "true"
NoType == "undefined"

\* sign * m * 2^e with the trailing zeros of m moved into the exponent
Canon(s, m, e) ==
    IF m = <<>> THEN Zero(s)
    ELSE Finite(s, BigShr(m, BigTrailingZeros(m)), e + BigTrailingZeros(m))

\* The integer i (of small size) as a Number
Num(i) ==
    IF i = 0 THEN Zero(1)
    ELSE IF i < 0 THEN Finite(-1, BigOf((-i) \div 2^TrailingZeros(-i)), TrailingZeros(-i))
    ELSE Finite(1, BigOf(i \div 2^TrailingZeros(i)), TrailingZeros(i))

\* An integer of magnitude below 2^30 other than 0, and its value
IsSmall(v) == v.kind = "number" /\ Len(v.digits) = 1 /\ v.exp >= 0 /\ v.exp <= 15
IntOf(v) == v.sign * v.digits[1] * 2^v.exp

\* n / 2^drop rounded to the nearest integer, a tie to the even one
\* (q is the integer below, c compares what is dropped with one half)
Nearest(q, c) == IF c > 0 \/ (c = 0 /\ BigOdd(q)) THEN BigAdd(q, <<1>>) ELSE q

NearestTo(n, drop, q) ==
    Nearest(q, BigCmp(BigSub(n, BigShl(q, drop)), BigShl(<<1>>, drop - 1)))

RoundedShift(n, drop) ==
    IF drop > BigBitLen(n) THEN <<>> ELSE NearestTo(n, drop, BigShr(n, drop))

\* sign * n * 2^e when it is in the range of a double, an infinity beyond it
Ranged(s, n, e) ==
    IF n = <<>> THEN Zero(s)
    ELSE IF BigBitLen(n) + e > 1024 THEN Infinity(s)
    ELSE Canon(s, n, e)

\* sign * n * 2^e with its last drop binary digits rounded away
Dropping(s, n, e, drop) ==
    IF drop <= 0 THEN Ranged(s, n, e)
    ELSE Ranged(s, RoundedShift(n, drop), e + drop)

\* The double nearest to sign * n * 2^e: 53 binary digits, no exponent below
\* -1074, round-half-to-even
Round(s, n, e) == Dropping(s, n, e, Max(BigBitLen(n) - 53, (-1074) - e))

\* ToNumber of an operand of an arithmetic operator: undefined becomes NaN
ToNumber(v) == IF v = Undefined THEN NaN ELSE v

IsNumber(v) == v # Undefined
IsZero(v) == v.kind = "number" /\ v.digits = <<>>
Truthy(ref) == ref # Null
TruthyNum(v) == v.kind = "infinity" \/ (v.kind = "number" /\ v.digits # <<>>)
TruthyString(s) == s \notin {NoType, ""}

\* a === b on numbers: NaN is equal to nothing, itself included; 0 === -0
StrictEquals(a, b) == (a = b /\ a # NaN) \/ (IsZero(a) /\ IsZero(b))

\* sa * ma * 2^e + sb * mb * 2^e, not rounded (a zero sum of unlike terms
\* is +0)
SignedSum(sa, ma, sb, mb, e) ==
    IF sa = sb THEN Canon(sa, BigAdd(ma, mb), e)
    ELSE IF BigCmp(ma, mb) = 0 THEN Zero(1)
    ELSE IF BigCmp(ma, mb) > 0 THEN Canon(sa, BigSub(ma, mb), e)
    ELSE Canon(sb, BigSub(mb, ma), e)

\* x - y of finite numbers, not rounded
ExactSub(x, y) ==
    SignedSum(x.sign, BigShl(x.digits, x.exp - Min(x.exp, y.exp)),
              -y.sign, BigShl(y.digits, y.exp - Min(x.exp, y.exp)),
              Min(x.exp, y.exp))

\* x * y of finite numbers, not rounded
ExactMul(x, y) == Canon(x.sign * y.sign, BigMul(x.digits, y.digits), x.exp + y.exp)

Rounded(v) == Round(v.sign, v.digits, v.exp)

\* the position above the leading binary digit of a finite number other than 0
Top(v) == BigBitLen(v.digits) + v.exp

\* 1, 0 or -1 as x > y, x = y or x < y, for finite numbers
Signum(d) == IF d.digits = <<>> THEN 0 ELSE d.sign

Compare(x, y) ==
    IF IsSmall(x) /\ IsSmall(y)
    THEN (IF IntOf(x) > IntOf(y) THEN 1 ELSE IF IntOf(x) < IntOf(y) THEN -1 ELSE 0)
    ELSE IF IsZero(x) \/ IsZero(y) THEN Signum(ExactSub(x, y))
    ELSE IF x.sign # y.sign THEN x.sign
    ELSE IF Top(x) > Top(y) THEN x.sign
    ELSE IF Top(x) < Top(y) THEN -x.sign
    ELSE Signum(ExactSub(x, y))

\* a >= b on numbers (false when an operand is NaN or undefined)
NumberGreaterEq(x, y) ==
    /\ x # NaN /\ y # NaN
    /\ IF x.kind = "infinity" THEN x.sign = 1 \/ y = x
       ELSE IF y.kind = "infinity" THEN y.sign = -1
       ELSE Compare(x, y) >= 0

GreaterEq(a, b) == NumberGreaterEq(ToNumber(a), ToNumber(b))

\* x - y on numbers
NumberSub(x, y) ==
    IF x = NaN \/ y = NaN THEN NaN
    ELSE IF x.kind = "infinity"
         THEN (IF y.kind = "infinity" /\ y.sign = x.sign THEN NaN ELSE x)
    ELSE IF y.kind = "infinity" THEN Infinity(-y.sign)
    \* a difference of magnitude below 2^31: there is nothing to round
    ELSE IF IsSmall(x) /\ IsSmall(y) THEN Num(IntOf(x) - IntOf(y))
    ELSE IF IsZero(x) \/ IsZero(y) THEN ExactSub(x, y)
    \* far apart: the smaller operand is less than half a unit in the last
    \* place of the larger
    ELSE IF Top(x) - Top(y) > 64 THEN x
    ELSE IF Top(y) - Top(x) > 64 THEN Finite(-y.sign, y.digits, y.exp)
    ELSE Rounded(ExactSub(x, y))

\* a - b
Sub(a, b) == NumberSub(ToNumber(a), ToNumber(b))

\* x * y on numbers
NumberMul(x, y) ==
    IF x = NaN \/ y = NaN THEN NaN
    ELSE IF x.kind = "infinity" \/ y.kind = "infinity"
         THEN (IF IsZero(x) \/ IsZero(y) THEN NaN ELSE Infinity(x.sign * y.sign))
    ELSE IF IsZero(x) \/ IsZero(y) THEN Zero(x.sign * y.sign)
    ELSE IF /\ Len(x.digits) = 1 /\ Len(y.digits) = 1
            /\ x.exp + y.exp >= -1074 /\ x.exp + y.exp <= 994
         \* a product below 2^30: there is nothing to round
         THEN Finite(x.sign * y.sign, BigOf(x.digits[1] * y.digits[1]), x.exp + y.exp)
    ELSE Round(x.sign * y.sign, BigMul(x.digits, y.digits), x.exp + y.exp)

\* a * b
Mul(a, b) == NumberMul(ToNumber(a), ToNumber(b))

\* twice the quotient d.q, made odd when the division left a remainder
Sticky(d) == BigAdd(BigShl(d.q, 1), IF d.r = <<>> THEN <<>> ELSE <<1>>)

\* x / y of finite numbers other than 0, the quotient of the digits taken to
\* at least 55 binary digits (x's are shifted by k) before it is rounded
Quotient(x, y, k) ==
    Round(x.sign * y.sign, Sticky(BigDivMod(BigShl(x.digits, k), y.digits)),
          x.exp - y.exp - k - 1)

\* x / y on numbers
NumberDiv(x, y) ==
    IF x = NaN \/ y = NaN THEN NaN
    ELSE IF x.kind = "infinity"
         THEN (IF y.kind = "infinity" THEN NaN ELSE Infinity(x.sign * y.sign))
    ELSE IF y.kind = "infinity" THEN Zero(x.sign * y.sign)
    ELSE IF IsZero(y)
         THEN (IF IsZero(x) THEN NaN ELSE Infinity(x.sign * y.sign))
    ELSE IF IsZero(x) THEN Zero(x.sign * y.sign)
    ELSE IF /\ Len(x.digits) = 1 /\ Len(y.digits) = 1
            /\ x.digits[1] % y.digits[1] = 0
            /\ x.exp - y.exp >= -1074 /\ x.exp - y.exp <= 1009
         \* the quotient of the digits is whole: there is nothing to round
         THEN Finite(x.sign * y.sign, <<x.digits[1] \div y.digits[1]>>, x.exp - y.exp)
    ELSE Quotient(x, y, Max(0, 55 + BigBitLen(y.digits) - BigBitLen(x.digits)))

\* a / b
Div(a, b) == NumberDiv(ToNumber(a), ToNumber(b))

\* ------------------------------------------------------------ event types
mousedown == <<"m", "o", "u", "s", "e", "d", "o", "w", "n">>
mouseup == <<"m", "o", "u", "s", "e", "u", "p">>
mousemove == <<"m", "o", "u", "s", "e", "m", "o", "v", "e">>
mouseout == <<"m", "o", "u", "s", "e", "o", "u", "t">>
mouseover == <<"m", "o", "u", "s", "e", "o", "v", "e", "r">>
touchstart == <<"t", "o", "u", "c", "h", "s", "t", "a", "r", "t">>
touchend == <<"t", "o", "u", "c", "h", "e", "n", "d">>
touchmove == <<"t", "o", "u", "c", "h", "m", "o", "v", "e">>
touchcancel == <<"t", "o", "u", "c", "h", "c", "a", "n", "c", "e", "l">>
pointerdown == <<"p", "o", "i", "n", "t", "e", "r", "d", "o", "w", "n">>
pointerup == <<"p", "o", "i", "n", "t", "e", "r", "u", "p">>
pointermove == <<"p", "o", "i", "n", "t", "e", "r", "m", "o", "v", "e">>
pointerout == <<"p", "o", "i", "n", "t", "e", "r", "o", "u", "t">>
wheel == <<"w", "h", "e", "e", "l">>
keydown == <<"k", "e", "y", "d", "o", "w", "n">>

\* ---------------------------------------------------------------- Pointer
TYPE == [UNKNOWN |-> "", MOUSE |-> "mouse", TOUCH |-> "touch", PEN |-> "pen"]

EVENT_CALL_MAP ==
    (mousedown :> "start") @@ (touchstart :> "start") @@ (pointerdown :> "start")
    @@ (mouseup :> "end") @@ (touchend :> "end") @@ (pointerup :> "end")
    @@ (mousemove :> "move") @@ (touchmove :> "move") @@ (pointermove :> "move")
    @@ (mouseout :> "cancel") @@ (touchcancel :> "cancel") @@ (pointerout :> "cancel")
    @@ (wheel :> "scroll")

Channels == {"onDown", "onUp", "onUpOutside", "onMove", "onCancel", "onScroll",
             "onClick", "onHoverStart", "onHoverEnd"}

NewPointerZeroSize(id) ==
    [id |-> id, type |-> "",
     target |-> Null, hoverTarget |-> Null, scrollTarget |-> Null,
     width |-> Num(0), height |-> Num(0), pressure |-> Num(0),
     deltaX |-> Num(0), deltaY |-> Num(0), clientX |-> Num(0), clientY |-> Num(0),
     worldX |-> Num(0), worldY |-> Num(0),
     scrollDeltaX |-> Num(0), scrollDeltaY |-> Num(0), scrollDeltaZ |-> Num(0),
     isDown |-> FALSE, isHovering |-> FALSE]

\* new Pointer(id, system)
NewPointer(id) ==
    [id |-> id, type |-> TYPE.UNKNOWN,
     target |-> Null, hoverTarget |-> Null, scrollTarget |-> Null,
     width |-> Num(1), height |-> Num(1), pressure |-> Num(1),
     deltaX |-> Num(0), deltaY |-> Num(0), clientX |-> Num(0), clientY |-> Num(0),
     worldX |-> Num(0), worldY |-> Num(0),
     scrollDeltaX |-> Num(0), scrollDeltaY |-> Num(0), scrollDeltaZ |-> Num(0),
     isDown |-> FALSE, isHovering |-> FALSE]

\* signal.dispatch(target, pointer): one entry of the dispatch record
Dispatch(ch, target, p) == [ch |-> ch, target |-> target, pointer |-> p.id]

\* The outcome of a transition: the pointer, the dispatches, the error thrown
Outcome(p, emits, err) == [p |-> p, emits |-> emits, err |-> err]

\* What the identifier `event` in Pointer._set resolves to: an event object
\* (of which only the type is read), the value undefined, or nothing at all
EventObject(e) == [kind |-> "object", type |-> e.type]
UndefinedEvent == [kind |-> "undefined", type |-> <<>>]
NoGlobalEvent == [kind |-> "undeclared", type |-> <<>>]

\* The hosts: while a listener runs, window.event is the event being
\* dispatched; or the canvas is in a shadow tree, and then the DOM leaves
\* window.event undefined while a listener of the canvas runs; or the host
\* defines no global `event`
Hosts == {"event", "undefined", "undeclared"}

\* The global `event` while the platform runs the system's listener, which
\* bindEvents registered on target ("canvas" or "window"), for the event e.
\* The window is in no shadow tree: its listeners always see the event.
WindowEvent(h, target, e) ==
    CASE h = "event" -> EventObject(e)
      [] h = "undefined" -> IF target = "window" THEN EventObject(e) ELSE UndefinedEvent
      [] h = "undeclared" -> NoGlobalEvent

\* type[0], the first character of an event type ("" has none)
FirstChar(type) == IF Len(type) = 0 THEN NoType ELSE type[1]

_setDeltaAlways(p, data, wev, worldX, worldY, calcDelta) ==
    IF ~TruthyString(data.pointerType) /\ wev.kind = "undeclared"
    THEN [p |-> p, err |-> "ReferenceError"]
    ELSE IF ~TruthyString(data.pointerType) /\ wev.kind = "undefined"
    THEN [p |-> p, err |-> "TypeError"]
    ELSE [err |-> "none", p |-> [p EXCEPT
        !.type = IF TruthyString(data.pointerType) THEN data.pointerType
                 ELSE IF Len(wev.type) > 0 /\ FirstChar(wev.type) = "m" THEN TYPE.MOUSE
                 ELSE TYPE.TOUCH,
        !.pressure = IF IsNumber(data.pressure) THEN data.pressure
                     ELSE IF IsNumber(data.force) THEN data.force
                     ELSE Num(1),
        !.width = IF TruthyNum(data.width) THEN data.width
                  ELSE IF IsNumber(data.radiusX) THEN Mul(data.radiusX, Num(2)) ELSE Num(1),
        !.height = IF TruthyNum(data.height) THEN data.height
                   ELSE IF IsNumber(data.radiusY) THEN Mul(data.radiusY, Num(2)) ELSE Num(1),
        !.deltaX = Sub(worldX, p.worldX),
        !.deltaY = Sub(worldY, p.worldY),
        !.clientX = data.clientX,
        !.clientY = data.clientY,
        !.worldX = worldX,
        !.worldY = worldY]]

\* Pointer._set(data, worldX, worldY, calcDelta); wev is the global `event`,
\* which is no parameter of the method.  Reading `event.type` throws before
\* any field is written when the identifier resolves to nothing or to
\* undefined; it is read only when data.pointerType is falsy.
_set(p, data, wev, worldX, worldY, calcDelta) ==
    IF ~TruthyString(data.pointerType) /\ wev.kind = "undeclared"
    THEN [p |-> p, err |-> "ReferenceError"]
    ELSE IF ~TruthyString(data.pointerType) /\ wev.kind = "undefined"
    THEN [p |-> p, err |-> "TypeError"]
    ELSE [err |-> "none", p |-> [p EXCEPT
        !.type = IF TruthyString(data.pointerType) THEN data.pointerType
                 ELSE IF Len(wev.type) > 0 /\ FirstChar(wev.type) = "m" THEN TYPE.MOUSE
                 ELSE TYPE.TOUCH,
        !.pressure = IF IsNumber(data.pressure) THEN data.pressure
                     ELSE IF IsNumber(data.force) THEN data.force
                     ELSE Num(1),
        !.width = IF TruthyNum(data.width) THEN data.width
                  ELSE IF IsNumber(data.radiusX) THEN Mul(data.radiusX, Num(2)) ELSE Num(1),
        !.height = IF TruthyNum(data.height) THEN data.height
                   ELSE IF IsNumber(data.radiusY) THEN Mul(data.radiusY, Num(2)) ELSE Num(1),
        !.deltaX = IF calcDelta THEN Sub(worldX, p.worldX) ELSE Num(0),
        !.deltaY = IF calcDelta THEN Sub(worldY, p.worldY) ELSE Num(0),
        !.clientX = data.clientX,
        !.clientY = data.clientY,
        !.worldX = worldX,
        !.worldY = worldY]]

\* debug.ASSERT(cond, msg) of a debug build throws when cond is false; the
\* production build has the call preprocessed out (@ifdef DEBUG)
AssertFails(dbg, cond) == dbg /\ ~cond

startDispatchesAlways(p, dbg, data, wev, target, worldX, worldY) ==
    IF AssertFails(dbg, ~p.isDown) THEN Outcome(p, <<>>, "AssertionError")
    ELSE
        LET p1 == [p EXCEPT !.isDown = TRUE, !.target = target]
            s == _set(p1, data, wev, worldX, worldY, FALSE)
        IN  IF s.err # "none" THEN Outcome(s.p, <<>>, s.err)
            ELSE Outcome(s.p, <<Dispatch("onDown", s.p.target, s.p)>>, "none")

startIgnoredWhenDown(p, dbg, data, wev, target, worldX, worldY) ==
    IF AssertFails(dbg, ~p.isDown) THEN Outcome(p, <<>>, "AssertionError")
    ELSE IF p.isDown THEN Outcome(p, <<>>, "none")
    ELSE
        LET p1 == [p EXCEPT !.isDown = TRUE, !.target = target]
            s == _set(p1, data, wev, worldX, worldY, FALSE)
        IN  IF s.err # "none" THEN Outcome(s.p, <<>>, s.err)
            ELSE Outcome(s.p,
                         IF Truthy(s.p.target)
                         THEN <<Dispatch("onDown", s.p.target, s.p)>> ELSE <<>>,
                         "none")

\* Pointer.start(data, target, worldX, worldY); when _set throws, isDown and
\* target are already written and nothing is dispatched
start(p, dbg, data, wev, target, worldX, worldY) ==
    IF AssertFails(dbg, ~p.isDown) THEN Outcome(p, <<>>, "AssertionError")
    ELSE
        LET Pressed(s) ==
                IF s.err # "none" THEN Outcome(s.p, <<>>, s.err)
                ELSE Outcome(s.p,
                             IF Truthy(s.p.target)
                             THEN <<Dispatch("onDown", s.p.target, s.p)>> ELSE <<>>,
                             "none")
        IN  Pressed(_set([p EXCEPT !.isDown = TRUE, !.target = target],
                         data, wev, worldX, worldY, FALSE))

\* The click detection of Pointer.end: the dispatches made before target is
\* reassigned (p.target is the pressed object, target the hit of the end)
EndClickNever(p, target) ==
    IF Truthy(p.target) /\ ~Truthy(target)
    THEN <<Dispatch("onUpOutside", p.target, p)>> ELSE <<>>

EndClickNoOutside(p, target) ==
    IF Truthy(p.target) /\ p.target = target
    THEN <<Dispatch("onClick", p.target, p)>> ELSE <<>>

EndClick(p, target) ==
    IF Truthy(p.target)
    THEN (IF p.target = target THEN <<Dispatch("onClick", p.target, p)>> ELSE <<>>)
         \o (IF ~Truthy(target) THEN <<Dispatch("onUpOutside", p.target, p)>> ELSE <<>>)
    ELSE <<>>

endUpBeforeClick(p, dbg, data, wev, target, worldX, worldY) ==
    IF ~p.isDown THEN Outcome(p, <<>>, "none")
    ELSE
        LET p1 == [p EXCEPT !.isDown = FALSE]
            s == _set(p1, data, wev, worldX, worldY, FALSE)
            p3 == [s.p EXCEPT !.target = target]
            up == IF Truthy(p3.target) THEN <<Dispatch("onUp", p3.target, p3)>> ELSE <<>>
        IN  IF s.err # "none" THEN Outcome(s.p, <<>>, s.err)
            ELSE Outcome(p3, up \o EndClick(s.p, target), "none")

endWithoutGuard(p, dbg, data, wev, target, worldX, worldY) ==
    LET p1 == [p EXCEPT !.isDown = FALSE]
        s == _set(p1, data, wev, worldX, worldY, FALSE)
        p3 == [s.p EXCEPT !.target = target]
        up == IF Truthy(p3.target) THEN <<Dispatch("onUp", p3.target, p3)>> ELSE <<>>
    IN  IF s.err # "none" THEN Outcome(s.p, <<>>, s.err)
        ELSE Outcome(p3, EndClick(s.p, target) \o up, "none")

\* Pointer.end(data, target, worldX, worldY); when _set throws, isDown is
\* already cleared, target is not reassigned and nothing is dispatched
end(p, dbg, data, wev, target, worldX, worldY) ==
    IF ~p.isDown THEN Outcome(p, <<>>, "none")
    ELSE
        LET Released(s) ==
                LET p3 == [s.p EXCEPT !.target = target]
                    up == IF Truthy(p3.target)
                          THEN <<Dispatch("onUp", p3.target, p3)>> ELSE <<>>
                IN  IF s.err # "none" THEN Outcome(s.p, <<>>, s.err)
                    ELSE Outcome(p3, EndClick(s.p, target) \o up, "none")
        IN  Released(_set([p EXCEPT !.isDown = FALSE], data, wev, worldX, worldY, FALSE))

\* The hover reconciliation of Pointer.move, run when the hit target differs
\* from hoverTarget: the pointer and the dispatches
HoverChangeKeepsOld(p, target) ==
    IF Truthy(target)
    THEN LET q == [p EXCEPT !.isHovering = TRUE, !.hoverTarget = target]
         IN  [p |-> q, emits |-> <<Dispatch("onHoverStart", q.hoverTarget, q)>>]
    ELSE [p |-> p, emits |-> <<>>]

HoverChangeStartFirst(p, target) ==
    LET closes == p.isHovering /\ Truthy(p.hoverTarget)
        hoverEnd == IF closes THEN <<Dispatch("onHoverEnd", p.hoverTarget, p)>> ELSE <<>>
        p2 == IF closes THEN [p EXCEPT !.isHovering = FALSE, !.hoverTarget = Null] ELSE p
        opens == Truthy(target)
        p3 == IF opens THEN [p2 EXCEPT !.isHovering = TRUE, !.hoverTarget = target] ELSE p2
        hoverStart == IF opens THEN <<Dispatch("onHoverStart", p3.hoverTarget, p3)>> ELSE <<>>
    IN  [p |-> p3, emits |-> hoverStart \o hoverEnd]

HoverChange(p, target) ==
    LET closes == p.isHovering /\ Truthy(p.hoverTarget)
        hoverEnd == IF closes THEN <<Dispatch("onHoverEnd", p.hoverTarget, p)>> ELSE <<>>
        p2 == IF closes THEN [p EXCEPT !.isHovering = FALSE, !.hoverTarget = Null] ELSE p
        opens == Truthy(target)
        p3 == IF opens THEN [p2 EXCEPT !.isHovering = TRUE, !.hoverTarget = target] ELSE p2
        hoverStart == IF opens THEN <<Dispatch("onHoverStart", p3.hoverTarget, p3)>> ELSE <<>>
    IN  [p |-> p3, emits |-> hoverEnd \o hoverStart]

\* Pointer.move(data, target, worldX, worldY); _set is its first statement,
\* so a throw leaves the pointer as it was
move(p, dbg, data, wev, target, worldX, worldY) ==
    LET Settled(hover) ==
            LET p4 == [hover.p EXCEPT !.hoverTarget = target]
                moved == IF Truthy(p4.hoverTarget)
                         THEN <<Dispatch("onMove", p4.hoverTarget, p4)>> ELSE <<>>
            IN  Outcome(p4, hover.emits \o moved, "none")
        Moved(s) ==
            IF s.err # "none" THEN Outcome(s.p, <<>>, s.err)
            ELSE Settled(IF s.p.hoverTarget # target THEN HoverChange(s.p, target)
                         ELSE [p |-> s.p, emits |-> <<>>])
    IN  Moved(_set(p, data, wev, worldX, worldY, p.isDown \/ p.isHovering))

\* The dispatches of Pointer.cancel, made before the targets are cleared
CancelDispatchesIfTarget(p, wasDown, wasHovering) ==
    (IF Truthy(p.target) THEN <<Dispatch("onCancel", p.target, p)>> ELSE <<>>)
    \o (IF wasDown /\ Truthy(p.target)
        THEN <<Dispatch("onUpOutside", p.target, p)>> ELSE <<>>)
    \o (IF wasHovering /\ Truthy(p.hoverTarget)
        THEN <<Dispatch("onHoverEnd", p.hoverTarget, p)>> ELSE <<>>)

CancelDispatches(p, wasDown, wasHovering) ==
    <<Dispatch("onCancel", IF Truthy(p.target) THEN p.target ELSE p.hoverTarget, p)>>
    \o (IF wasDown /\ Truthy(p.target)
        THEN <<Dispatch("onUpOutside", p.target, p)>> ELSE <<>>)
    \o (IF wasHovering /\ Truthy(p.hoverTarget)
        THEN <<Dispatch("onHoverEnd", p.hoverTarget, p)>> ELSE <<>>)

\* Pointer.cancel(data, target, worldX, worldY); when _set throws, the two
\* flags are already cleared, the three targets are kept and nothing is
\* dispatched
cancel(p, dbg, data, wev, target, worldX, worldY) ==
    LET wasDown == p.isDown
        wasHovering == p.isHovering
        Cancelled(s) ==
            IF s.err # "none" THEN Outcome(s.p, <<>>, s.err)
            ELSE Outcome([s.p EXCEPT !.target = Null, !.hoverTarget = Null,
                                     !.scrollTarget = Null],
                         CancelDispatches(s.p, wasDown, wasHovering), "none")
    IN  Cancelled(_set([p EXCEPT !.isDown = FALSE, !.isHovering = FALSE],
                       data, wev, worldX, worldY, FALSE))

scrollRetargets(p, dbg, data, wev, target, worldX, worldY) ==
    LET s == _set(p, data, wev, worldX, worldY, FALSE)
        p2 == [s.p EXCEPT !.scrollDeltaX = data.deltaX,
                          !.scrollDeltaY = data.deltaY,
                          !.scrollDeltaZ = data.deltaZ,
                          !.scrollTarget = target,
                          !.target = target]
    IN  IF s.err # "none" THEN Outcome(s.p, <<>>, s.err)
        ELSE Outcome(p2,
                     IF Truthy(target)
                     THEN <<Dispatch("onScroll", p2.scrollTarget, p2)>> ELSE <<>>,
                     "none")

\* Pointer.scroll(data, target, worldX, worldY); _set is its first statement
scroll(p, dbg, data, wev, target, worldX, worldY) ==
    LET Scrolled(s) ==
            LET p2 == [s.p EXCEPT !.scrollDeltaX = data.deltaX,
                                  !.scrollDeltaY = data.deltaY,
                                  !.scrollDeltaZ = data.deltaZ,
                                  !.scrollTarget = target]
            IN  IF s.err # "none" THEN Outcome(s.p, <<>>, s.err)
                ELSE Outcome(p2,
                             IF Truthy(target)
                             THEN <<Dispatch("onScroll", p2.scrollTarget, p2)>> ELSE <<>>,
                             "none")
    IN  Scrolled(_set(p, data, wev, worldX, worldY, FALSE))

\* pointer[Pointer.EVENT_CALL_MAP[event.type]](data, hitObject, worldX, worldY)
CallTransition(op, p, dbg, data, wev, target, worldX, worldY) ==
    CASE op = "start" -> start(p, dbg, data, wev, target, worldX, worldY)
      [] op = "end" -> end(p, dbg, data, wev, target, worldX, worldY)
      [] op = "move" -> move(p, dbg, data, wev, target, worldX, worldY)
      [] op = "cancel" -> cancel(p, dbg, data, wev, target, worldX, worldY)
      [] op = "scroll" -> scroll(p, dbg, data, wev, target, worldX, worldY)

\* ------------------------------------------------------ InteractionSystem
VARIABLES
    debugBuild,        \* the build has DEBUG defined (NODE_ENV is not production)
    host,              \* what the global `event` is while a listener runs
    hasPointerEvent,   \* window.PointerEvent exists on this platform
    pointers,          \* this.pointers
    domElement,        \* this.domElement: the managed canvas, or "null"
    rect,              \* what domElement.getBoundingClientRect() returns now
    tempCoords,        \* the module's shared out object of convertClientToWorld
    eventsBound,       \* this._eventsBound (maintained by debug builds only)
    registered,        \* the (target, event type) pairs _boundHandleEvent listens on
    listeners,         \* number of listeners attached to each broadcast channel
    interactions,      \* this.interactions: "undefined" until destroy assigns null
    error,             \* the error thrown by the latest call, "none" if it returned
    lastCall,          \* the latest call made on the system
    attached,          \* the latest lifecycle call was initialize (not dispose)
    direct,            \* the application has called bindEvents or unbindEvents itself
    log,               \* one entry per Pointer transition invoked, in order
    steps              \* number of calls made so far

vars == <<debugBuild, host, hasPointerEvent, pointers, domElement, rect, tempCoords,
          eventsBound, registered, listeners, interactions, error, lastCall, attached,
          direct, log, steps>>

\* The managed canvas: its intrinsic pixel size (domElement.width/height)
Canvas == [width |-> Num(800), height |-> Num(600)]

\* The layouts the canvas takes on screen (getBoundingClientRect)
Layout1 == [left |-> Num(10), top |-> Num(10), width |-> Num(400), height |-> Num(300)]
Layout2 == [left |-> Num(0), top |-> Num(0), width |-> Num(800), height |-> Num(600)]
Layout3 == [left |-> Num(10), top |-> Num(10), width |-> Num(300), height |-> Num(400)]
Layouts == {Layout1, Layout2, Layout3}

\* this.entities, in order: each candidate tests a rectangle in world space and
\* returns itself, or the boolean true, when the point is inside
entities ==
    << [name |-> "A", x0 |-> Num(100), x1 |-> Num(250), y0 |-> Num(80), y1 |-> Num(200),
        returns |-> "A"],
       [name |-> "B", x0 |-> Num(200), x1 |-> Num(500), y0 |-> Num(150), y1 |-> Num(400),
        returns |-> "B"],
       [name |-> "T", x0 |-> Num(5), x1 |-> Num(50), y0 |-> Num(5), y1 |-> Num(50),
        returns |-> True] >>

\* entity.hitTest(x, y) of a candidate (every comparison with NaN is false)
EntityHitTest(ent, x, y) ==
    IF /\ GreaterEq(x, ent.x0) /\ GreaterEq(ent.x1, x)
       /\ GreaterEq(y, ent.y0) /\ GreaterEq(ent.y1, y)
    THEN ent.returns
    ELSE Null

convertClientToWorldCached(x, y, dom, bounds) ==
    [x |-> Mul(Sub(x, Layout1.left), Div(dom.width, Layout1.width)),
     y |-> Mul(Sub(y, Layout1.top), Div(dom.height, Layout1.height))]

\* InteractionSystem.convertClientToWorld(x, y, out), with the surface's
\* intrinsic size and the bounds read by the call
convertClientToWorld(x, y, dom, bounds) ==
    [x |-> Mul(Sub(x, bounds.left), Div(dom.width, bounds.width)),
     y |-> Mul(Sub(y, bounds.top), Div(dom.height, bounds.height))]

RECURSIVE HitScanLast(_, _, _, _)
HitScanLast(ents, i, x, y) ==
    IF i > Len(ents) THEN [pass |-> Null, called |-> <<>>]
    ELSE
        LET pass == EntityHitTest(ents[i], x, y)
            rest == HitScanLast(ents, i + 1, x, y)
        IN  [pass |-> IF Truthy(rest.pass) THEN rest.pass ELSE pass,
             called |-> <<ents[i].name>> \o rest.called]

\* The loop of InteractionSystem.hitTest from candidate i on: the value
\* returned and the candidates whose hitTest was called
RECURSIVE HitScan(_, _, _, _)
HitScan(ents, i, x, y) ==
    IF i > Len(ents) THEN [pass |-> Null, called |-> <<>>]
    ELSE
        LET pass == EntityHitTest(ents[i], x, y)
        IN  IF Truthy(pass) THEN [pass |-> pass, called |-> <<ents[i].name>>]
            ELSE LET rest == HitScan(ents, i + 1, x, y)
                 IN  [pass |-> rest.pass, called |-> <<ents[i].name>> \o rest.called]

\* InteractionSystem.hitTest(x, y)
hitTest(ents, x, y) == HitScan(ents, 1, x, y)

FindPointerFirstOnly(ps, id, i) ==
    IF i = 1 /\ Len(ps) >= 1 /\ StrictEquals(ps[1].id, id) THEN 1 ELSE 0

\* The index in ps of the first Pointer whose id === the given id, 0 if there
\* is none
RECURSIVE FindPointer(_, _, _)
FindPointer(ps, id, i) ==
    IF i > Len(ps) THEN 0
    ELSE IF StrictEquals(ps[i].id, id) THEN i
    ELSE FindPointer(ps, id, i + 1)

\* The contact id _getPointer resolves from the event data
PointerIdOf(data) ==
    IF IsNumber(data.pointerId) THEN data.pointerId
    ELSE IF IsNumber(data.identifier) THEN data.identifier
    ELSE Num(0)

_getPointerRecreating(ps, data) ==
    LET pointerId == PointerIdOf(data)
        found == FindPointer(ps, pointerId, 1)
    IN  IF found # 0 /\ ~ps[found].isDown /\ ~ps[found].isHovering
        THEN [pointers |-> [ps EXCEPT ![found] = NewPointer(pointerId)], index |-> found]
        ELSE IF found # 0 THEN [pointers |-> ps, index |-> found]
        ELSE [pointers |-> Append(ps, NewPointer(pointerId)), index |-> Len(ps) + 1]

\* InteractionSystem._getPointer(data): the collection afterwards and the
\* index of the Pointer returned
_getPointer(ps, data) ==
    LET pointerId == PointerIdOf(data)
        found == FindPointer(ps, pointerId, 1)
    IN  IF found # 0 THEN [pointers |-> ps, index |-> found]
        ELSE [pointers |-> Append(ps, NewPointer(pointerId)), index |-> Len(ps) + 1]

\* ----------------------------------------------------------- input events
\* The fields of an event or of a contact that the code reads
Data(pointerId, identifier, pointerType, pressure, force, size, radius, cx, cy, delta) ==
    [pointerId |-> pointerId, identifier |-> identifier, pointerType |-> pointerType,
     pressure |-> pressure, force |-> force, width |-> size, height |-> size,
     radiusX |-> radius, radiusY |-> radius, clientX |-> cx, clientY |-> cy,
     deltaX |-> delta, deltaY |-> delta, deltaZ |-> delta]

U == Undefined

\* Client positions: over A (and B) / over nothing / over B (see Layouts)
PosA == [x |-> Num(110), y |-> Num(85)]
Pos0 == [x |-> Num(10), y |-> Num(10)]
PosB == [x |-> Num(210), y |-> Num(160)]
Positions == {PosA, Pos0, PosB}

PointerEvent(type, id, ptype, pressure, pos) ==
    [type |-> type, isTouchEvent |-> FALSE, changedTouches |-> <<>>,
     data |-> Data(Num(id), U, ptype, Num(pressure), U, Num(1), U, pos.x, pos.y, U)]
MouseEvent(type, pos) ==
    [type |-> type, isTouchEvent |-> FALSE, changedTouches |-> <<>>,
     data |-> Data(U, U, NoType, U, U, U, U, pos.x, pos.y, U)]
WheelEvent(pos, delta) ==
    [type |-> wheel, isTouchEvent |-> FALSE, changedTouches |-> <<>>,
     data |-> Data(U, U, NoType, U, U, U, U, pos.x, pos.y, Num(delta))]
Touch(identifier, pos) ==
    Data(U, Num(identifier), NoType, U, Num(1), U, Num(4), pos.x, pos.y, U)
TouchEvent(type, touches) ==
    [type |-> type, isTouchEvent |-> TRUE, changedTouches |-> touches,
     data |-> Data(U, U, NoType, U, U, U, U, U, U, U)]

\* What a TouchList gives for the fields read from a contact: it has none of them
TouchListData == Data(U, U, NoType, U, U, U, U, U, U, U)

\* The events the platform delivers
Events ==
    { PointerEvent(t, 1, "mouse", 0, pos) :
        t \in {pointerdown, pointerup, pointermove}, pos \in Positions }
    \cup { PointerEvent(pointerout, 1, "mouse", 0, Pos0),
           PointerEvent(pointerdown, 2, "", 1, PosA),
           PointerEvent(pointermove, 2, "", 1, PosB),
           PointerEvent(pointerup, 2, "", 1, PosA) }
    \cup { MouseEvent(t, pos) :
        t \in {mousedown, mouseup, mousemove}, pos \in Positions }
    \cup { MouseEvent(mouseout, Pos0), WheelEvent(PosA, 3) }
    \cup { TouchEvent(touchstart, <<Touch(5, PosA), Touch(6, PosB)>>),
           TouchEvent(touchstart, <<Touch(5, PosA)>>),
           TouchEvent(touchmove, <<Touch(5, PosB)>>),
           TouchEvent(touchend, <<Touch(5, PosA)>>),
           TouchEvent(touchcancel, <<Touch(5, PosA)>>) }

\* An event of another kind, dispatched to a listener of the application
KeyEvent(type) ==
    [type |-> type, isTouchEvent |-> FALSE, changedTouches |-> <<>>,
     data |-> Data(U, U, NoType, U, U, U, U, U, U, U)]

\* The events the application hands to handleEvent itself: handleEvent is
\* public and takes any event.  A start and a cancel are the transitions that
\* write fields of the pointer before _set reads the global `event`
ForwardedEvents == { MouseEvent(t, PosA) : t \in {mousedown, mouseout} }

\* What the global `event` can be while application code calls handleEvent:
\* the event of the listener it calls from, undefined when no event is being
\* dispatched (a timer, a promise callback), nothing on a host without it
AmbientEvents(h) ==
    IF h = "undeclared" THEN {NoGlobalEvent}
    ELSE {EventObject(KeyEvent(keydown)), EventObject(KeyEvent(mouseover)), UndefinedEvent}

\* ------------------------------------------------------------- handleEvent
\* `const touch = event.changedTouches;` in the loop over the changed
\* contacts: the value passed on as the i-th contact is the list itself
touch(event, i) == TouchListData

\* The body run for one contact: _getPointer, convertClientToWorld, hitTest
\* and the Pointer transition of the event's type.  st carries the fields of
\* the system that the call changes.
HandleContact(st, event, i, data, dbg, dom, bounds) ==
    LET op == EVENT_CALL_MAP[event.type]
        Applied(got, worldCoords, hit, out) ==
            [call |-> st.call,
             windowEvent |-> st.windowEvent,
             tempCoords |-> worldCoords,
             log |-> Append(st.log,
                [call |-> st.call, op |-> op, event |-> event, contact |-> i,
                 data |-> data, wev |-> st.windowEvent,
                 bounds |-> bounds,
                 worldX |-> worldCoords.x, worldY |-> worldCoords.y,
                 hit |-> hit.pass, called |-> hit.called,
                 index |-> got.index, id |-> got.pointers[got.index].id,
                 pre |-> got.pointers[got.index], post |-> out.p,
                 emits |-> out.emits, err |-> out.err]),
             pointers |-> [got.pointers EXCEPT ![got.index] = out.p],
             error |-> out.err]
        Tested(got, worldCoords, hit) ==
            Applied(got, worldCoords, hit,
                    CallTransition(op, got.pointers[got.index], dbg, data, st.windowEvent,
                                   hit.pass, worldCoords.x, worldCoords.y))
        Converted(got, worldCoords) ==
            Tested(got, worldCoords, hitTest(entities, worldCoords.x, worldCoords.y))
        Resolved(got) ==
            IF dom = Null
            THEN [st EXCEPT !.pointers = got.pointers, !.error = "TypeError"]
            ELSE Converted(got, convertClientToWorld(data.clientX, data.clientY,
                                                     Canvas, bounds))
    IN  Resolved(_getPointer(st.pointers, data))

\* The loop over event.changedTouches from contact i on; an error thrown by
\* one iteration ends the loop
RECURSIVE HandleTouches(_, _, _, _, _, _)
HandleTouches(st, event, i, dbg, dom, bounds) ==
    IF i > Len(event.changedTouches) \/ st.error # "none" THEN st
    ELSE HandleTouches(HandleContact(st, event, i, touch(event, i), dbg, dom, bounds),
                       event, i + 1, dbg, dom, bounds)

\* InteractionSystem.handleEvent(event)
handleEvent(st, event, dbg, dom, bounds) ==
    IF event.isTouchEvent THEN HandleTouches(st, event, 1, dbg, dom, bounds)
    ELSE HandleContact(st, event, 0, event.data, dbg, dom, bounds)

\* ---------------------------------------------------------------- binding
\* The (target, event type) pairs bindEvents adds and unbindEvents removes
ListenerFamily(pointerEvents) ==
    (IF pointerEvents
     THEN {<<"canvas", pointerdown>>, <<"canvas", pointermove>>,
           <<"canvas", pointerout>>, <<"window", pointerup>>}
     ELSE {<<"canvas", mousedown>>, <<"canvas", mousemove>>,
           <<"canvas", mouseout>>, <<"window", mouseup>>,
           <<"canvas", touchstart>>, <<"canvas", touchmove>>,
           <<"canvas", touchcancel>>, <<"window", touchend>>})
    \cup {<<"canvas", wheel>>}

bindEventsWithoutFlag(dbg, bound, reg, dom, pointerEvents) ==
    IF AssertFails(dbg, ~bound) THEN [bound |-> bound, reg |-> reg, error |-> "AssertionError"]
    ELSE IF dom = Null THEN [bound |-> bound, reg |-> reg, error |-> "TypeError"]
    ELSE [bound |-> bound, reg |-> reg \cup ListenerFamily(pointerEvents), error |-> "none"]

\* InteractionSystem.bindEvents(): the bound flag, the registered pairs and
\* the error thrown.  With domElement null the first addEventListener throws.
bindEvents(dbg, bound, reg, dom, pointerEvents) ==
    IF AssertFails(dbg, ~bound) THEN [bound |-> bound, reg |-> reg, error |-> "AssertionError"]
    ELSE IF dom = Null
    THEN [bound |-> IF dbg THEN TRUE ELSE bound, reg |-> reg, error |-> "TypeError"]
    ELSE [bound |-> IF dbg THEN TRUE ELSE bound,
          reg |-> reg \cup ListenerFamily(pointerEvents), error |-> "none"]

unbindEventsOnCanvas(dbg, bound, reg, dom, pointerEvents) ==
    IF AssertFails(dbg, bound) THEN [bound |-> bound, reg |-> reg, error |-> "AssertionError"]
    ELSE IF dom = Null
    THEN [bound |-> IF dbg THEN FALSE ELSE bound, reg |-> reg, error |-> "TypeError"]
    ELSE [bound |-> IF dbg THEN FALSE ELSE bound,
          reg |-> {l \in reg : l[1] # "canvas"}, error |-> "none"]

\* InteractionSystem.unbindEvents()
unbindEvents(dbg, bound, reg, dom, pointerEvents) ==
    IF AssertFails(dbg, bound) THEN [bound |-> bound, reg |-> reg, error |-> "AssertionError"]
    ELSE IF dom = Null
    THEN [bound |-> IF dbg THEN FALSE ELSE bound, reg |-> reg, error |-> "TypeError"]
    ELSE [bound |-> IF dbg THEN FALSE ELSE bound,
          reg |-> reg \ ListenerFamily(pointerEvents), error |-> "none"]

\* ------------------------------------------------------------ the system
\* The state after `new InteractionSystem(canvas)`
Init ==
    /\ debugBuild \in BOOLEAN
    /\ host \in Hosts
    /\ hasPointerEvent \in BOOLEAN
    /\ pointers = <<>>
    /\ domElement = "canvas"
    /\ rect = Layout1
    /\ tempCoords = [x |-> Num(0), y |-> Num(0)]
    /\ eventsBound = FALSE
    /\ registered = {}
    /\ listeners = [ch \in Channels |-> 0]
    /\ interactions = "undefined"
    /\ error = "none"
    /\ lastCall = "constructor"
    /\ attached = FALSE
    /\ direct = FALSE
    /\ log = <<>>
    /\ steps = 0

Step == steps < MaxSteps /\ steps' = steps + 1

\* InteractionSystem.initialize(): called when the system is added
Initialize ==
    /\ Step
    /\ LET r == bindEvents(debugBuild, eventsBound, registered, domElement, hasPointerEvent)
       IN  /\ eventsBound' = r.bound
           /\ registered' = r.reg
           /\ error' = r.error
    /\ lastCall' = "initialize"
    /\ attached' = TRUE
    /\ UNCHANGED <<debugBuild, host, hasPointerEvent, direct, pointers, domElement, rect, tempCoords,
                   listeners, interactions, log>>

\* InteractionSystem.dispose(): called when the system is removed
Dispose ==
    /\ Step
    /\ LET r == unbindEvents(debugBuild, eventsBound, registered, domElement, hasPointerEvent)
       IN  /\ eventsBound' = r.bound
           /\ registered' = r.reg
           /\ error' = r.error
    /\ lastCall' = "dispose"
    /\ attached' = FALSE
    /\ UNCHANGED <<debugBuild, host, hasPointerEvent, direct, pointers, domElement, rect, tempCoords,
                   listeners, interactions, log>>

\* The application calls InteractionSystem.bindEvents() itself, to manage the
\* binding of the DOM events on its own
BindEvents ==
    /\ Step
    /\ LET r == bindEvents(debugBuild, eventsBound, registered, domElement, hasPointerEvent)
       IN  /\ eventsBound' = r.bound
           /\ registered' = r.reg
           /\ error' = r.error
    /\ lastCall' = "bindEvents"
    /\ direct' = TRUE
    /\ UNCHANGED <<debugBuild, host, hasPointerEvent, pointers, domElement, rect, tempCoords,
                   listeners, interactions, attached, log>>

\* The application calls InteractionSystem.unbindEvents() itself
UnbindEvents ==
    /\ Step
    /\ LET r == unbindEvents(debugBuild, eventsBound, registered, domElement, hasPointerEvent)
       IN  /\ eventsBound' = r.bound
           /\ registered' = r.reg
           /\ error' = r.error
    /\ lastCall' = "unbindEvents"
    /\ direct' = TRUE
    /\ UNCHANGED <<debugBuild, host, hasPointerEvent, pointers, domElement, rect, tempCoords,
                   listeners, interactions, attached, log>>

\* InteractionSystem.destroy(): the fields it leaves and the error it throws.
\* this.onInteraction is no field of the system, so `.detachAll()` throws
\* after the two assignments.
destroy(sys) ==
    [sys EXCEPT !.interactions = Null, !.domElement = Null, !.error = "TypeError"]

Destroy ==
    /\ Step
    /\ LET r == destroy([pointers |-> pointers, listeners |-> listeners,
                         domElement |-> domElement, interactions |-> interactions,
                         error |-> "none"])
       IN  /\ pointers' = r.pointers
           /\ listeners' = r.listeners
           /\ domElement' = r.domElement
           /\ interactions' = r.interactions
           /\ error' = r.error
    /\ lastCall' = "destroy"
    /\ UNCHANGED <<debugBuild, host, hasPointerEvent, direct, rect, tempCoords, eventsBound, registered,
                   attached, log>>

\* The page lays the canvas out anew (a resize)
Resize ==
    /\ Step
    /\ rect' \in Layouts \ {rect}
    /\ UNCHANGED <<debugBuild, host, hasPointerEvent, direct, pointers, domElement, tempCoords, eventsBound,
                   registered, listeners, interactions, error, lastCall, attached, log>>

\* The application attaches a listener to each broadcast channel (signal.add)
Subscribe ==
    /\ Step
    /\ \A ch \in Channels : listeners[ch] = 0
    /\ listeners' = [ch \in Channels |-> listeners[ch] + 1]
    /\ UNCHANGED <<debugBuild, host, hasPointerEvent, direct, pointers, domElement, rect, tempCoords,
                   eventsBound, registered, error, lastCall, attached, interactions, log>>

\* The platform dispatches an event a listener is registered for
Deliver ==
    /\ Step
    /\ \E event \in Events, tgt \in {"canvas", "window"} :
        /\ <<tgt, event.type>> \in registered
        /\ \E r \in {handleEvent([call |-> steps + 1,
                                  windowEvent |-> WindowEvent(host, tgt, event),
                                  pointers |-> pointers, tempCoords |-> tempCoords,
                                  error |-> "none", log |-> log],
                                 event, debugBuild, domElement, rect)} :
               /\ pointers' = r.pointers
               /\ tempCoords' = r.tempCoords
               /\ error' = r.error
               /\ log' = r.log
    /\ lastCall' = "handleEvent"
    /\ UNCHANGED <<debugBuild, host, hasPointerEvent, direct, domElement, rect, eventsBound, registered,
                   listeners, interactions, attached>>

\* The application passes an event of its own to handleEvent, from a listener
\* of another event or outside every dispatch
Forward ==
    /\ Step
    /\ \E event \in ForwardedEvents, dispatched \in AmbientEvents(host) :
        \E r \in {handleEvent([call |-> steps + 1, windowEvent |-> dispatched,
                               pointers |-> pointers, tempCoords |-> tempCoords,
                               error |-> "none", log |-> log],
                              event, debugBuild, domElement, rect)} :
            /\ pointers' = r.pointers
            /\ tempCoords' = r.tempCoords
            /\ error' = r.error
            /\ log' = r.log
    /\ lastCall' = "handleEvent"
    /\ UNCHANGED <<debugBuild, host, hasPointerEvent, direct, domElement, rect, eventsBound, registered,
                   listeners, interactions, attached>>

Next ==
    \/ Initialize \/ Dispose \/ BindEvents \/ UnbindEvents \/ Destroy
    \/ Resize \/ Subscribe \/ Deliver \/ Forward

Spec == Init /\ [][Next]_vars

\* ------------------------------------------------------ reading the log
\* Number of dispatches on channel ch among emits
CountCh(emits, ch) == Cardinality({k \in DOMAIN emits : emits[k].ch = ch})

\* Number of dispatches of ch with the given target and pointer among emits
CountEv(emits, ch, target, id) ==
    Cardinality({k \in DOMAIN emits : emits[k] = [ch |-> ch, target |-> target, pointer |-> id]})

\* Entry j is a later transition of the pointer of entry i
SamePointerLater(i, j) == i < j /\ log[j].id = log[i].id

\* The transitions of the pointer of entry i strictly between entries i and j
Between(i, j) == {k \in DOMAIN log : i < k /\ k < j /\ log[k].id = log[i].id}

\* The transition of entry e returned: no assertion stopped it and the read
\* of the global `event` in _set did not throw
Completed(e) == e.err = "none"

\* the transition threw while reading the type of the global event
Thrown(e) == e.err \in {"TypeError", "ReferenceError"}

\* Entry i is a start that was carried out
Started(i) == log[i].op = "start" /\ Completed(log[i])

\* ------------------------------------------------------------------ claims
\* C1: for a Pointer that is not down and a non-null object A, start with hit
\* target A followed immediately by end with the same hit target A emits
\* onClick(A, pointer) exactly once and no onUpOutside.
C1_ClickCase(i, j) ==
    /\ SamePointerLater(i, j) /\ Between(i, j) = {}
    /\ Started(i) /\ ~log[i].pre.isDown /\ Truthy(log[i].hit)
    /\ log[j].op = "end" /\ Completed(log[j]) /\ log[j].hit = log[i].hit

C1_StartEndClicksOnce ==
    \A i, j \in DOMAIN log :
        C1_ClickCase(i, j) =>
            /\ CountEv(log[j].emits, "onClick", log[i].hit, log[i].id) = 1
            /\ CountCh(log[j].emits, "onClick") = 1
            /\ CountCh(log[j].emits, "onUpOutside") = 0

C1_Witness == \E i, j \in DOMAIN log : C1_ClickCase(i, j) /\ log[i].hit = "A"

\* C2: start with hit target A (non-null) followed by end with a null hit
\* target, with only move and scroll transitions of that Pointer in between,
\* emits onUpOutside(A, pointer) exactly once and no onClick.
C2_OutsideCase(i, j) ==
    /\ SamePointerLater(i, j)
    /\ Started(i) /\ Truthy(log[i].hit)
    /\ \A k \in Between(i, j) : log[k].op \in {"move", "scroll"}
    /\ log[j].op = "end" /\ Completed(log[j]) /\ ~Truthy(log[j].hit)

C2_StartEndOutside ==
    \A i, j \in DOMAIN log :
        C2_OutsideCase(i, j) =>
            /\ CountEv(log[j].emits, "onUpOutside", log[i].hit, log[i].id) = 1
            /\ CountCh(log[j].emits, "onUpOutside") = 1
            /\ CountCh(log[j].emits, "onClick") = 0

C2_Witness ==
    \E i, j \in DOMAIN log :
        C2_OutsideCase(i, j) /\ Between(i, j) # {} /\ log[i].pre.isDown = FALSE

\* C3: for a Pointer whose hoverTarget is null, a move with hit target B
\* (non-null) emits exactly one onHoverStart(B, pointer); every following move
\* whose hit target is still B emits exactly one onMove(B, pointer) and no
\* onHoverStart or onHoverEnd; a following move with null hit target emits
\* exactly one onHoverEnd(B, pointer) and no onMove.
C3_Enters(i) ==
    /\ log[i].op = "move" /\ Completed(log[i])
    /\ log[i].pre.hoverTarget = Null /\ Truthy(log[i].hit)

\* From the entering move i up to entry j the Pointer stayed over the same
\* object: its moves hit it and no cancel came
C3_Stays(i, j) ==
    \A k \in Between(i, j) :
        /\ log[k].op # "cancel"
        /\ log[k].op = "move" => log[k].hit = log[i].hit

C3_HoverSequence ==
    \A i \in DOMAIN log :
        C3_Enters(i) =>
            /\ CountEv(log[i].emits, "onHoverStart", log[i].hit, log[i].id) = 1
            /\ CountCh(log[i].emits, "onHoverStart") = 1
            /\ \A j \in DOMAIN log :
                (/\ SamePointerLater(i, j) /\ C3_Stays(i, j)
                 /\ log[j].op = "move" /\ Completed(log[j])) =>
                    /\ log[j].hit = log[i].hit =>
                        /\ CountEv(log[j].emits, "onMove", log[i].hit, log[i].id) = 1
                        /\ CountCh(log[j].emits, "onMove") = 1
                        /\ CountCh(log[j].emits, "onHoverStart") = 0
                        /\ CountCh(log[j].emits, "onHoverEnd") = 0
                    /\ log[j].hit = Null =>
                        /\ CountEv(log[j].emits, "onHoverEnd", log[i].hit, log[i].id) = 1
                        /\ CountCh(log[j].emits, "onHoverEnd") = 1
                        /\ CountCh(log[j].emits, "onMove") = 0

C3_Witness ==
    \E i, j, k \in DOMAIN log :
        /\ C3_Enters(i) /\ log[i].hit = "B"
        /\ SamePointerLater(i, j) /\ Between(i, j) = {}
        /\ log[j].op = "move" /\ Completed(log[j]) /\ log[j].hit = "B"
        /\ SamePointerLater(j, k) /\ Between(j, k) = {}
        /\ log[k].op = "move" /\ Completed(log[k]) /\ log[k].hit = Null

\* C4: cancel, from any reachable Pointer state, emits onCancel exactly once
\* with payload target if non-null else hoverTarget (possibly null); emits
\* onUpOutside(target) iff the pointer was down with a non-null target and
\* onHoverEnd(hoverTarget) iff it was hovering with a non-null hoverTarget; and
\* afterwards isDown and isHovering are false and target, hoverTarget and
\* scrollTarget are all null.
C4_CancelOf(e) ==
    LET pre == e.pre
        payload == IF pre.target # Null THEN pre.target ELSE pre.hoverTarget
        outside == pre.isDown /\ pre.target # Null
        hoverEnd == pre.isHovering /\ pre.hoverTarget # Null
    IN  /\ CountCh(e.emits, "onCancel") = 1
        /\ CountEv(e.emits, "onCancel", payload, e.id) = 1
        /\ CountCh(e.emits, "onUpOutside") = (IF outside THEN 1 ELSE 0)
        /\ CountEv(e.emits, "onUpOutside", pre.target, e.id) = (IF outside THEN 1 ELSE 0)
        /\ CountCh(e.emits, "onHoverEnd") = (IF hoverEnd THEN 1 ELSE 0)
        /\ CountEv(e.emits, "onHoverEnd", pre.hoverTarget, e.id) = (IF hoverEnd THEN 1 ELSE 0)
        /\ Len(e.emits) = 1 + (IF outside THEN 1 ELSE 0) + (IF hoverEnd THEN 1 ELSE 0)
        /\ ~e.post.isDown /\ ~e.post.isHovering
        /\ e.post.target = Null /\ e.post.hoverTarget = Null /\ e.post.scrollTarget = Null

C4_CancelResets ==
    \A i \in DOMAIN log :
        (log[i].op = "cancel" /\ Completed(log[i])) => C4_CancelOf(log[i])

\* a cancel of a pointer that is down on A and hovering over it
C4_Witness ==
    \E i \in DOMAIN log :
        /\ log[i].op = "cancel" /\ Completed(log[i])
        /\ log[i].pre.isDown /\ log[i].pre.target = "A"
        /\ log[i].pre.isHovering /\ log[i].pre.hoverTarget = "A"

\* C5: no two Pointers of the collection have the same id: _getPointer
\* resolves the contact id as pointerId, else identifier, else 0, returns the
\* existing Pointer with that id and creates one only when there is none, so
\* the transitions of one contact id act on one Pointer instance, each on the
\* state the previous one left.
C5_OnePointerPerId ==
    /\ \A i, j \in DOMAIN pointers : pointers[i].id = pointers[j].id => i = j
    /\ \A i \in DOMAIN log :
        /\ log[i].id = PointerIdOf(log[i].data)
        /\ log[i].index \in DOMAIN pointers /\ pointers[log[i].index].id = log[i].id
    /\ \A i, j \in DOMAIN log :
        (SamePointerLater(i, j) /\ Between(i, j) = {}) =>
            /\ log[j].index = log[i].index
            /\ log[j].pre = log[i].post

C5_Witness ==
    /\ Len(pointers) >= 2
    /\ \E i, j \in DOMAIN log :
        /\ SamePointerLater(i, j) /\ log[i].index = 2
        /\ log[i].op = "start" /\ log[j].op \in {"move", "end"}

\* C6: a touch-type event dispatches each changed contact to the Pointer
\* whose id is that contact's own identifier, with that contact's own client
\* coordinates for conversion and hit test; two simultaneous contacts with
\* distinct identifiers drive two distinct Pointers and never trigger start
\* on a Pointer that is already down.
C6_TouchContactOf(e) == e.event.changedTouches[e.contact]

C6_EachTouchOwnPointer ==
    /\ \A i \in DOMAIN log :
        log[i].event.isTouchEvent =>
            LET c == C6_TouchContactOf(log[i])
                w == convertClientToWorld(c.clientX, c.clientY, Canvas, log[i].bounds)
            IN  /\ log[i].id = c.identifier
                /\ log[i].post.clientX = c.clientX /\ log[i].post.clientY = c.clientY
                /\ log[i].worldX = w.x /\ log[i].worldY = w.y
                /\ log[i].hit = hitTest(entities, w.x, w.y).pass
    /\ \A i, j \in DOMAIN log :
        (i < j /\ log[i].call = log[j].call /\ log[i].event.isTouchEvent
            /\ C6_TouchContactOf(log[i]).identifier # C6_TouchContactOf(log[j]).identifier) =>
            /\ log[i].index # log[j].index
            /\ log[j].op = "start" => ~log[j].pre.isDown

\* C7: hitTest(x, y) scans the candidates in their current order, returns the
\* result of the first candidate whose hitTest(x, y) is truthy, calls hitTest
\* on no candidate after that one, and returns null when none is truthy.
C7_ScanOf(e) ==
    LET n == Len(e.called)
    IN  /\ n <= Len(entities)
        /\ \A k \in 1..n : e.called[k] = entities[k].name
        /\ \A k \in 1..(n - 1) : ~Truthy(EntityHitTest(entities[k], e.worldX, e.worldY))
        /\ IF n >= 1 /\ Truthy(EntityHitTest(entities[n], e.worldX, e.worldY))
           THEN e.hit = EntityHitTest(entities[n], e.worldX, e.worldY)
           ELSE n = Len(entities) /\ e.hit = Null

C7_FirstHitWins == \A i \in DOMAIN log : C7_ScanOf(log[i])

\* a point inside both A and B: A is returned and B is not asked
C7_Witness ==
    \E i \in DOMAIN log :
        /\ log[i].hit = "A" /\ log[i].called = <<"A">>
        /\ Truthy(EntityHitTest(entities[2], log[i].worldX, log[i].worldY))

\* C8 as stated: convertClientToWorld maps a client coordinate (x, y) to
\* ((x - left) * intrinsicWidth / displayedWidth,
\*  (y - top) * intrinsicHeight / displayedHeight) with the bounds the surface
\* has at the time of the call.  The formula is read either way it can be:
\* as the exact value, or as the expression evaluated from left to right in
\* the program's arithmetic.
C8_Formula(world, offset, intrinsic, displayed) ==
    \/ Compare(ExactMul(world, displayed), ExactMul(offset, intrinsic)) = 0
    \/ world = Div(Mul(offset, intrinsic), displayed)

C8_AsStated ==
    \A i \in DOMAIN log :
        (log[i].data.clientX # Undefined /\ log[i].data.clientY # Undefined) =>
            /\ C8_Formula(log[i].worldX, Sub(log[i].data.clientX, log[i].bounds.left),
                          Canvas.width, log[i].bounds.width)
            /\ C8_Formula(log[i].worldY, Sub(log[i].data.clientY, log[i].bounds.top),
                          Canvas.height, log[i].bounds.height)

\* |world * displayed - offset * intrinsic| <= 2^-51 * |offset * intrinsic|,
\* in exact arithmetic
C8_Magnitude(v, shift) == Finite(1, v.digits, v.exp + shift)

C8_Within(world, offset, intrinsic, displayed) ==
    Compare(C8_Magnitude(ExactMul(offset, intrinsic), 0),
            C8_Magnitude(ExactSub(ExactMul(world, displayed),
                                  ExactMul(offset, intrinsic)), 51)) >= 0

\* C8: convertClientToWorld maps a client coordinate (x, y) to
\* ((x - left) * (intrinsicWidth / displayedWidth),
\*  (y - top) * (intrinsicHeight / displayedHeight)) in the program's
\* arithmetic, the ratio being computed, and rounded, first: a value within
\* a relative error of 2^-51 of (x - left) * intrinsicWidth / displayedWidth.
\* The bounds are the ones the surface has at the time of the call; for
\* intrinsic size 800x600, displayed size 400x300 and origin (10,10), client
\* (110, 85) converts to world (200, 150).
C8_ConversionOf(e) ==
    (e.data.clientX # Undefined /\ e.data.clientY # Undefined) =>
        /\ e.worldX = Mul(Sub(e.data.clientX, e.bounds.left),
                          Div(Canvas.width, e.bounds.width))
        /\ e.worldY = Mul(Sub(e.data.clientY, e.bounds.top),
                          Div(Canvas.height, e.bounds.height))
        /\ C8_Within(e.worldX, Sub(e.data.clientX, e.bounds.left),
                     Canvas.width, e.bounds.width)
        /\ C8_Within(e.worldY, Sub(e.data.clientY, e.bounds.top),
                     Canvas.height, e.bounds.height)
        /\ (e.bounds = [left |-> Num(10), top |-> Num(10),
                        width |-> Num(400), height |-> Num(300)]
              /\ Canvas = [width |-> Num(800), height |-> Num(600)]
              /\ e.data.clientX = Num(110) /\ e.data.clientY = Num(85))
            => (e.worldX = Num(200) /\ e.worldY = Num(150))

\* (the log only grows: it is enough to look, in every state, at the entries
\* the latest call made)
C8_ConvertsWithCurrentBounds ==
    /\ \A i \in DOMAIN log : log[i].call = steps => C8_ConversionOf(log[i])
    /\ (log # <<>> /\ lastCall = "handleEvent" /\ error = "none")
        => (tempCoords.x = log[Len(log)].worldX /\ tempCoords.y = log[Len(log)].worldY)

\* the example, and a later event converted after the layout changed to one
\* whose displayed width does not divide the intrinsic width: 100 * (800 /
\* 300) is 266.66666666666663 (2345624805922133 * 2^-43), where 100 * 800 /
\* 300 is 266.6666666666667; 75 * (600 / 400) is 112.5
C8_Witness ==
    \E i, j \in DOMAIN log :
        /\ i < j
        /\ log[i].bounds = Layout1
        /\ log[i].data.clientX = Num(110) /\ log[i].data.clientY = Num(85)
        /\ log[i].worldX = Num(200) /\ log[i].worldY = Num(150)
        /\ log[j].bounds = Layout3
        /\ log[j].data.clientX = Num(110) /\ log[j].data.clientY = Num(85)
        /\ log[j].worldX = Finite(1, <<21845, 10922, 21845, 66>>, -43)
        /\ log[j].worldY = Finite(1, <<225>>, -1)
        /\ log[j].worldX # Div(Mul(Num(100), Num(800)), Num(300))

\* C9: destroy completes without error and leaves the pointer collection
\* empty, every listener detached from all nine broadcast channels, and the
\* reference to the managed surface null.
C9_DestroyCleansUp ==
    lastCall = "destroy" =>
        /\ error = "none"
        /\ pointers = <<>>
        /\ \A ch \in Channels : listeners[ch] = 0
        /\ domElement = Null

\* C10: over the calls of initialize and dispose on a system that was not
\* destroyed and on which the application called neither bindEvents nor
\* unbindEvents itself, the raw listeners are registered exactly when the
\* system is attached: initialize registers each (target, event type) of
\* the platform's family plus wheel, dispose removes the same set, and
\* after dispose no listener of the system remains registered.
C10_BoundWhileAttached ==
    (interactions = "undefined" /\ ~direct) =>
        registered = (IF attached THEN ListenerFamily(hasPointerEvent) ELSE {})

\* initialize, an event delivered, then dispose
C10_Witness ==
    /\ lastCall = "dispose" /\ error = "none" /\ interactions = "undefined" /\ ~direct
    /\ log # <<>> /\ registered = {}

\* C11: after every completed Pointer transition, in every reachable state,
\* hoverTarget is non-null if and only if isHovering is true.  Stated of the
\* pointer each transition that returned leaves behind.
C11_HoverOf(p) == (p.hoverTarget # Null) <=> p.isHovering

C11_HoverTargetIffHovering ==
    \A i \in DOMAIN log : Completed(log[i]) => C11_HoverOf(log[i].post)

\* C12: a Pointer is created only by an event that references an unseen id
\* and is never removed by a transition: the collection never shrinks (end
\* and cancel included), and a later event with the same id reuses the
\* Pointer with the state the earlier events left.
C12_Kept ==
    /\ Len(pointers') >= Len(pointers)
    /\ \A i \in DOMAIN pointers : pointers'[i].id = pointers[i].id
    /\ pointers' # pointers => lastCall' = "handleEvent"
    /\ Len(pointers') > Len(pointers) =>
        /\ Len(pointers') = Len(pointers) + 1
        /\ \A i \in DOMAIN pointers : pointers[i].id # pointers'[Len(pointers')].id

C12_Reused ==
    \A j \in DOMAIN log :
        LET earlier == {i \in DOMAIN log : i < j /\ log[i].id = log[j].id}
        IN  /\ log[j].index \in DOMAIN pointers
            /\ pointers[log[j].index].id = log[j].id
            /\ earlier # {} =>
                \E i \in earlier :
                    /\ \A k \in earlier : k <= i
                    /\ log[j].index = log[i].index
                    /\ log[j].pre = log[i].post

C12_PointersPersist == [][C12_Kept]_vars /\ []C12_Reused

\* start, end, then a start of the same id that finds the state end left
C12_Witness ==
    \E i, j \in DOMAIN log :
        /\ SamePointerLater(i, j) /\ Between(i, j) = {}
        /\ log[i].op = "end" /\ log[i].pre.isDown /\ log[i].hit = "A"
        /\ log[j].op = "start" /\ log[j].pre.target = "A" /\ log[j].pre.type # ""

\* C13: end on a Pointer that is not down is a no-op: it dispatches on no
\* channel and leaves every field of the Pointer unchanged.
C13_StrayEndIsNoOp ==
    \A i \in DOMAIN log :
        (log[i].op = "end" /\ ~log[i].pre.isDown) =>
            /\ log[i].emits = <<>>
            /\ log[i].post = log[i].pre
            /\ log[i].err = "none"

\* a stray end over A, at another position than the one the Pointer holds
C13_Witness ==
    \E i \in DOMAIN log :
        /\ log[i].op = "end" /\ ~log[i].pre.isDown /\ log[i].hit = "A"
        /\ log[i].pre.target # "A" /\ log[i].pre.worldX # log[i].worldX

\* C14: start on a Pointer that is already down is a usage error: a debug
\* build fails the precondition assertion; a production build proceeds,
\* overwriting target with the new hit target (isDown stays true) and
\* dispatching onDown for the new target if it is non-null, with no onUp,
\* onUpOutside or onClick for the object pressed before.
C14_RestartOf(e) ==
    IF debugBuild
    THEN e.err = "AssertionError" /\ e.post = e.pre /\ e.emits = <<>>
    ELSE /\ e.err = "none"
         /\ e.post.isDown /\ e.post.target = e.hit
         /\ e.emits = (IF e.hit # Null
                       THEN <<[ch |-> "onDown", target |-> e.hit, pointer |-> e.id]>>
                       ELSE <<>>)

C14_StartWhileDown ==
    \A i \in DOMAIN log :
        (log[i].op = "start" /\ log[i].pre.isDown /\ ~Thrown(log[i])) => C14_RestartOf(log[i])

\* a production build: pressed on A, started again over B and over nothing
C14_Witness ==
    /\ ~debugBuild
    /\ \E i, j \in DOMAIN log :
        /\ i < j
        /\ log[i].op = "start" /\ log[i].pre.isDown /\ log[i].pre.target = "A"
        /\ log[i].hit = "B" /\ Completed(log[i])
        /\ log[j].op = "start" /\ log[j].pre.isDown /\ log[j].hit = Null
        /\ Completed(log[j])

\* C15: onUpOutside is dispatched whenever a pointer pressed on an object A
\* ends its interaction outside of A: every end whose hit target is not A
\* (null or another object B) dispatches onUpOutside(A, pointer).
C15_UpOutsideWheneverNotOnTarget ==
    \A i, j \in DOMAIN log :
        (/\ SamePointerLater(i, j)
         /\ Started(i) /\ Truthy(log[i].hit)
         /\ \A k \in Between(i, j) : log[k].op \in {"move", "scroll"}
         /\ log[j].op = "end" /\ log[j].hit # log[i].hit) =>
            CountEv(log[j].emits, "onUpOutside", log[i].hit, log[i].id) >= 1

\* C16: when a candidate's hitTest returns the boolean true, the hit is
\* attributed to that candidate: the object stored as target, hoverTarget or
\* scrollTarget and delivered to listeners is the candidate, never the value
\* true.
C16_Candidate(e) ==
    LET n == Len(e.called)
    IN  IF n >= 1 /\ EntityHitTest(entities[n], e.worldX, e.worldY) = True
        THEN entities[n].name ELSE e.hit

C16_TrueMeansCandidate ==
    /\ \A i \in DOMAIN log :
        /\ log[i].hit = C16_Candidate(log[i])
        /\ \A k \in DOMAIN log[i].emits : log[i].emits[k].target # True
    /\ \A i \in DOMAIN pointers :
        /\ pointers[i].target # True
        /\ pointers[i].hoverTarget # True
        /\ pointers[i].scrollTarget # True

\* C17: over every sequence of transitions, every dispatch on onDown, onUp,
\* onUpOutside, onMove, onClick, onHoverStart and onHoverEnd carries a
\* non-null target; a null target is delivered only on onScroll or onCancel.
C17_NullOnlyOnScrollOrCancel ==
    \A i \in DOMAIN log :
        \A k \in DOMAIN log[i].emits :
            log[i].emits[k].target = Null => log[i].emits[k].ch \in {"onScroll", "onCancel"}

\* a press whose dispatches carry A, then a cancel delivered with null
C17_Witness ==
    \E i, j \in DOMAIN log :
        /\ i < j
        /\ CountEv(log[i].emits, "onDown", "A", log[i].id) = 1
        /\ log[j].op = "cancel" /\ CountEv(log[j].emits, "onCancel", Null, log[j].id) = 1

\* C18: in a debug build, bindEvents called while events are already bound,
\* and unbindEvents called while they are not bound, each fail an assertion;
\* the bound flag is true exactly between a bindEvents and the next
\* unbindEvents.
\* bindEvents is called by initialize or by the application, unbindEvents by
\* dispose or by the application; the flag starts false.
C18_Binds == Initialize \/ BindEvents
C18_Unbinds == Dispose \/ UnbindEvents

C18_Asserted ==
    debugBuild =>
        /\ (C18_Binds /\ eventsBound) =>
            (error' = "AssertionError" /\ eventsBound' /\ registered' = registered)
        /\ (C18_Binds /\ ~eventsBound) => (error' # "AssertionError" /\ eventsBound')
        /\ (C18_Unbinds /\ ~eventsBound) =>
            (error' = "AssertionError" /\ ~eventsBound' /\ registered' = registered)
        /\ (C18_Unbinds /\ eventsBound) => (error' # "AssertionError" /\ ~eventsBound')
        /\ (~C18_Binds /\ ~C18_Unbinds) => eventsBound' = eventsBound

C18_BoundFlag == (debugBuild => ~eventsBound) /\ [][C18_Asserted]_vars

\* a debug build in which the application called bindEvents itself and
\* initialize then found the events bound
C18_Witness ==
    /\ debugBuild /\ direct /\ lastCall = "initialize"
    /\ error = "AssertionError" /\ eventsBound

\* C19: a Pointer newly created by the registry, before any transition is
\* applied to it, has isDown = false, isHovering = false, pressure = 1.0,
\* width = height = 1, deltaX/deltaY, the scroll deltas, the client and the
\* world coordinates all 0, type UNKNOWN, and target, hoverTarget and
\* scrollTarget null.
C19_Default(p) ==
    /\ ~p.isDown /\ ~p.isHovering
    /\ p.pressure = Num(1) /\ p.width = Num(1) /\ p.height = Num(1)
    /\ p.deltaX = Num(0) /\ p.deltaY = Num(0)
    /\ p.scrollDeltaX = Num(0) /\ p.scrollDeltaY = Num(0) /\ p.scrollDeltaZ = Num(0)
    /\ p.clientX = Num(0) /\ p.clientY = Num(0)
    /\ p.worldX = Num(0) /\ p.worldY = Num(0)
    /\ p.type = TYPE.UNKNOWN
    /\ p.target = Null /\ p.hoverTarget = Null /\ p.scrollTarget = Null

C19_NewPointerDefaults ==
    /\ \A j \in DOMAIN log :
        (\A i \in DOMAIN log : i < j => log[i].index # log[j].index) => C19_Default(log[j].pre)
    /\ \A n \in DOMAIN pointers :
        (\A i \in DOMAIN log : log[i].index # n) => C19_Default(pointers[n])

\* a Pointer whose first transition is logged, and one created by an event
\* that failed before any transition (the surface reference was null)
C19_Witness ==
    /\ \E j \in DOMAIN log : log[j].index = 1
    /\ \E n \in DOMAIN pointers : \A i \in DOMAIN log : log[i].index # n

\* C20: a move whose hit target changes from a hovered object A to another
\* non-null object B dispatches, in this order, onHoverEnd(A, pointer),
\* onHoverStart(B, pointer), onMove(B, pointer), each exactly once, and
\* leaves isHovering = true and hoverTarget = B.
C20_Crosses(e) ==
    /\ e.op = "move" /\ Completed(e)
    /\ e.pre.isHovering /\ e.pre.hoverTarget # Null
    /\ e.hit # Null /\ e.hit # e.pre.hoverTarget

C20_HoverHandOver ==
    \A i \in DOMAIN log :
        C20_Crosses(log[i]) =>
            /\ log[i].emits =
                << [ch |-> "onHoverEnd", target |-> log[i].pre.hoverTarget, pointer |-> log[i].id],
                   [ch |-> "onHoverStart", target |-> log[i].hit, pointer |-> log[i].id],
                   [ch |-> "onMove", target |-> log[i].hit, pointer |-> log[i].id] >>
            /\ log[i].post.isHovering /\ log[i].post.hoverTarget = log[i].hit

C20_Witness ==
    \E i \in DOMAIN log :
        C20_Crosses(log[i]) /\ log[i].pre.hoverTarget = "A" /\ log[i].hit = "B"

\* C21: end on a down Pointer always leaves target equal to the hit target
\* of the end event (not the pressed object) and isDown = false; it emits
\* onUp(hitTarget, pointer) exactly once iff the hit target is non-null, and
\* that onUp comes after any onClick or onUpOutside emitted by the same end.
C21_EndOf(e) ==
    /\ e.post.target = e.hit /\ ~e.post.isDown
    /\ CountCh(e.emits, "onUp") = (IF e.hit # Null THEN 1 ELSE 0)
    /\ CountEv(e.emits, "onUp", e.hit, e.id) = CountCh(e.emits, "onUp")
    /\ \A k, m \in DOMAIN e.emits :
        (e.emits[k].ch = "onUp" /\ e.emits[m].ch \in {"onClick", "onUpOutside"}) => m < k

C21_EndRetargets ==
    \A i \in DOMAIN log :
        (log[i].op = "end" /\ log[i].pre.isDown /\ Completed(log[i])) => C21_EndOf(log[i])

\* a release over B of a press on A: target moves to B and onUp carries B
C21_Witness ==
    \E i \in DOMAIN log :
        /\ log[i].op = "end" /\ log[i].pre.isDown
        /\ log[i].pre.target = "A" /\ log[i].hit = "B"
        /\ log[i].post.target = "B"
        /\ CountEv(log[i].emits, "onUp", "B", log[i].id) = 1

\* C22: after a move, deltaX/deltaY are (new world coordinates - world
\* coordinates stored before the move) when the Pointer was down or hovering
\* as the move began and zero otherwise; after start, end (when down), cancel
\* and scroll they are zero; every such transition overwrites worldX/worldY
\* with the new values.
C22_Applied(e) == Completed(e) /\ (e.op = "end" => e.pre.isDown)

C22_DeltaOf(e) ==
    /\ e.post.worldX = e.worldX /\ e.post.worldY = e.worldY
    /\ IF e.op = "move" /\ (e.pre.isDown \/ e.pre.isHovering)
       THEN /\ e.post.deltaX = Sub(e.worldX, e.pre.worldX)
            /\ e.post.deltaY = Sub(e.worldY, e.pre.worldY)
       ELSE e.post.deltaX = Num(0) /\ e.post.deltaY = Num(0)

C22_Deltas == \A i \in DOMAIN log : C22_Applied(log[i]) => C22_DeltaOf(log[i])

\* an idle pointer's move that enters an object away from its stored position
\* with zero delta, and a hovering pointer's move with a non-zero delta
C22_Witness ==
    /\ \E i \in DOMAIN log :
        /\ log[i].op = "move" /\ ~log[i].pre.isDown /\ ~log[i].pre.isHovering
        /\ log[i].hit # Null /\ log[i].worldX # log[i].pre.worldX
        /\ Completed(log[i]) /\ log[i].post.deltaX = Num(0)
    /\ \E i \in DOMAIN log :
        /\ log[i].op = "move" /\ log[i].pre.isHovering /\ Completed(log[i])
        /\ log[i].post.deltaX \notin {Num(0), NaN}

\* C23: after any transition, the Pointer's type is the payload's explicit
\* pointerType when present; otherwise it is MOUSE when the type of the event
\* being handled (the event passed to handleEvent) begins with 'm', and TOUCH
\* in every other case, on the single-contact and on the touch-contact path.
C23_TypeOf(data, event) ==
    IF TruthyString(data.pointerType) THEN data.pointerType
    ELSE IF FirstChar(event.type) = "m" THEN TYPE.MOUSE
    ELSE TYPE.TOUCH

C23_TypeFromHandledEvent ==
    \A i \in DOMAIN log :
        (log[i].err # "AssertionError" /\ (log[i].op = "end" => log[i].pre.isDown)) =>
            log[i].post.type = C23_TypeOf(log[i].data, log[i].event)

\* C24: for each Pointer, over any sequence of transitions, onHoverStart and
\* onHoverEnd dispatches strictly alternate starting with onHoverStart; the
\* number of onHoverStart minus the number of onHoverEnd is 1 when isHovering
\* is true and 0 when it is false; and every onHoverEnd carries the target of
\* the most recent onHoverStart of that Pointer.
\* The positions <<entry, dispatch>> of the hover dispatches of pointer n
C24_Hover(n, ch) ==
    UNION {{<<i, k>> : k \in {m \in DOMAIN log[i].emits : log[i].emits[m].ch = ch}} :
           i \in {j \in DOMAIN log : log[j].index = n}}

C24_Before(a, b) == a[1] < b[1] \/ (a[1] = b[1] /\ a[2] < b[2])

C24_Prev(all, a) ==
    {b \in all : C24_Before(b, a) /\ ~\E c \in all : C24_Before(b, c) /\ C24_Before(c, a)}

C24_AlternatesOn(n) ==
    LET starts == C24_Hover(n, "onHoverStart")
        ends == C24_Hover(n, "onHoverEnd")
        all == starts \cup ends
    IN  /\ \A a \in starts : C24_Prev(all, a) \subseteq ends
        /\ \A a \in ends :
            /\ C24_Prev(all, a) # {}
            /\ \A b \in C24_Prev(all, a) :
                /\ b \in starts
                /\ log[b[1]].emits[b[2]].target = log[a[1]].emits[a[2]].target
        /\ Cardinality(starts) - Cardinality(ends) = (IF pointers[n].isHovering THEN 1 ELSE 0)

C24_HoverAlternates == \A n \in DOMAIN pointers : C24_AlternatesOn(n)

\* C25: press state and hover state are independent: start, end and scroll
\* leave isHovering and hoverTarget unchanged; move and scroll leave isDown
\* and target unchanged; start, end and move leave scrollTarget and the
\* scroll deltas unchanged; only cancel changes both press and hover state in
\* one transition.
C25_SamePress(e) == e.post.isDown = e.pre.isDown /\ e.post.target = e.pre.target

C25_SameHover(e) ==
    e.post.isHovering = e.pre.isHovering /\ e.post.hoverTarget = e.pre.hoverTarget

C25_SameScroll(e) ==
    /\ e.post.scrollTarget = e.pre.scrollTarget
    /\ e.post.scrollDeltaX = e.pre.scrollDeltaX
    /\ e.post.scrollDeltaY = e.pre.scrollDeltaY
    /\ e.post.scrollDeltaZ = e.pre.scrollDeltaZ

C25_FrameOf(e) ==
    /\ e.op \in {"start", "end", "scroll"} => C25_SameHover(e)
    /\ e.op \in {"move", "scroll"} => C25_SamePress(e)
    /\ e.op \in {"start", "end", "move"} => C25_SameScroll(e)
    /\ (~C25_SamePress(e) /\ ~C25_SameHover(e)) => e.op = "cancel"

C25_PressHoverIndependent == \A i \in DOMAIN log : C25_FrameOf(log[i])

\* a hovering pointer is pressed and stays hovering, then a cancel ends both
C25_Witness ==
    \E i, j \in DOMAIN log :
        /\ i < j /\ log[i].index = log[j].index
        /\ log[i].op = "start" /\ log[i].pre.isHovering
        /\ log[i].post.isDown /\ log[i].post.isHovering
        /\ log[j].op = "cancel" /\ ~C25_SamePress(log[j]) /\ ~C25_SameHover(log[j])

\* C26: in every reachable state the unconditional assignment
\* hoverTarget = hitTarget at the end of move does not change the value the
\* hover reconciliation left, so at the start of each move hoverTarget is the
\* hit target of that Pointer's previous move (null if there was none or a
\* cancel came in between); move without that assignment emits the same
\* events and reaches the same state.
C26_MoveWithoutAssignment(p, data, wev, target, worldX, worldY) ==
    LET s == _set(p, data, wev, worldX, worldY, p.isDown \/ p.isHovering)
        hover == IF s.p.hoverTarget # target THEN HoverChange(s.p, target)
                 ELSE [p |-> s.p, emits |-> <<>>]
        moved == IF Truthy(hover.p.hoverTarget)
                 THEN <<Dispatch("onMove", hover.p.hoverTarget, hover.p)>> ELSE <<>>
    IN  IF s.err # "none" THEN Outcome(s.p, <<>>, s.err)
        ELSE Outcome(hover.p, hover.emits \o moved, "none")

\* The completed moves and cancels of the pointer of entry j before entry j
C26_Earlier(j) ==
    {i \in DOMAIN log :
        /\ i < j /\ log[i].index = log[j].index
        /\ log[i].op \in {"move", "cancel"} /\ Completed(log[i])}

C26_LastHit(j) ==
    IF C26_Earlier(j) = {} THEN Null
    ELSE LET i == CHOOSE k \in C26_Earlier(j) : \A m \in C26_Earlier(j) : m <= k
         IN  IF log[i].op = "cancel" THEN Null ELSE log[i].hit

C26_MoveOf(e) ==
    C26_MoveWithoutAssignment(e.pre, e.data, e.wev, e.hit, e.worldX, e.worldY)
        = Outcome(e.post, e.emits, e.err)

C26_AssignmentRedundant ==
    \A j \in DOMAIN log :
        log[j].op = "move" =>
            /\ log[j].pre.hoverTarget = C26_LastHit(j)
            /\ C26_MoveOf(log[j])

====
